---- MODULE Spec2Model ----
(***************************************************************************)
(* Model of osm_geocode.ipynb: the geocode lookup (geocode_address) and    *)
(* the batch driver (the "Main Loop" cell) that reads address rows with a  *)
(* search cursor, looks each one up and appends a row to the output CSV.   *)
(*                                                                         *)
(* Python values are modelled as strings; Python's None is the value None  *)
(* below.  A dict is a function whose DOMAIN is the set of keys it holds,  *)
(* so d[k] on a missing key (KeyError) and d.get(k, default) are told      *)
(* apart.  A list is a sequence (Python index 0 is index 1 here).          *)
(***************************************************************************)
EXTENDS Integers, Sequences, FiniteSets, TLC

VARIABLES
    table,                \* rows the search cursor yields, in table order
    max_rows_to_process,  \* the configured row cap
    pc,                   \* position of the run in the notebook
    n,                    \* the loop counter n
    pos,                  \* number of rows the cursor has yielded so far
    row,                  \* the row bound by "for row in cursor"
    response,             \* the response object of the last requests.get
    result,               \* the 10-tuple the last lookup returned
    exc,                  \* the exception propagating, "" when there is none
    csv,                  \* rows of the output file, as written
    file_state,           \* "unopened", "open" or "closed"
    cursor_state,         \* "unopened", "open" or "closed"
    log,                  \* effects of the run, in order
    slept,                \* seconds spent in time.sleep so far
    requests,             \* query parameters of every GET issued, in order
    results               \* the tuple every lookup returned, in order

vars == <<table, max_rows_to_process, pc, n, pos, row, response, result, exc,
          csv, file_state, cursor_state, log, slept, requests, results>>

---------------------------------------------------------------------------
(* Bounds of the model *)

MaxRows == 3
MaxCap == 3
MaxFeatures == 2

---------------------------------------------------------------------------
(* Configuration cell *)

api_key == "<api_key_here>"
delay_seconds == 1

None == "None"
NA == "N/A"
NoException == ""

---------------------------------------------------------------------------
(* Responses of the geocoding service *)

RequiredKeys == {"source", "accuracy", "match_type"}
MatchedKeys == {"street", "locality", "postalcode", "region", "country"}

\* A properties dict of flavour tag: any subset of the required keys, any
\* subset of the matched keys, a matched key holding its value or JSON null.
PropertiesOf(tag) ==
    UNION { UNION { { [k \in req \cup opt |->
                        IF k \in nulls THEN None ELSE k \o "_" \o tag] :
                      nulls \in SUBSET opt } :
                    opt \in SUBSET MatchedKeys } :
            req \in SUBSET RequiredKeys }

CoordinatesOf(tag) ==
    { <<"lon_" \o tag, "lat_" \o tag>>,
      <<"lon_" \o tag>>,
      <<"lon_" \o tag, "lat_" \o tag, "alt_" \o tag>> }

FullProperties(tag) == [k \in RequiredKeys \cup MatchedKeys |-> k \o "_" \o tag]

Feature(coordinates, properties) ==
    [geometry |-> [coordinates |-> coordinates], properties |-> properties]

\* Candidates for the first feature of a response.
FirstFeatures ==
    { Feature(c, p) : c \in CoordinatesOf("a"), p \in PropertiesOf("a") }
    \cup { [geometry |-> [coordinates |-> c]] : c \in CoordinatesOf("a") }
    \cup { [properties |-> FullProperties("a")] }

\* Candidates for the features after the first.
OtherFeatures ==
    { Feature(<<"lon_b", "lat_b">>, FullProperties("b")),
      Feature(<<"lon_c", "lat_c">>, [k \in RequiredKeys |-> k \o "_c"]) }

SeqsUpTo(S, len) == UNION { [1..m -> S] : m \in 0..len }

Bodies ==
    { [error |-> "message"] }                  \* a JSON object without "features"
    \cup { [features |-> <<>>] }               \* zero results
    \cup { [features |-> <<f>> \o rest] :
             f \in FirstFeatures, rest \in SeqsUpTo(OtherFeatures, MaxFeatures - 1) }

StatusCodes == {200, 204, 401, 403, 429, 500}

AllResponses ==
    { [status_code |-> s, json_ok |-> TRUE, data |-> b] :
        s \in StatusCodes, b \in Bodies }
    \cup { [status_code |-> s, json_ok |-> FALSE, data |-> [text |-> "<html>"]] : s \in StatusCodes }

\* The value of response while no response object has been bound.
NoResponse == [status_code |-> 0, json_ok |-> FALSE, data |-> [text |-> ""]]

---------------------------------------------------------------------------
(* geocode_address, from the response on *)

Return(value) == [raised |-> NoException, value |-> value]
Raise(exception) == [raised |-> exception, value |-> <<>>]

NullResult == <<None, None, None, None, None, None, None, None, None, None>>

\* Mutant of IsSuccess: every 2xx status taken for success.
IsSuccess_Any2xx(resp) == resp.status_code \in 200..299

IsSuccess(resp) == resp.status_code = 200

\* Mutant of dict_get: the default dropped, as dict.get(key) would do.
dict_get_NoDefault(d, key, default) == IF key \in DOMAIN d THEN d[key] ELSE None

\* dict.get(key, default)
dict_get(d, key, default) == IF key \in DOMAIN d THEN d[key] ELSE default

\* geocoded_data['features'][0]
FirstFeature(features) == features[1]

\* Mutant of LatLon: the coordinates kept in the order of the response.
LatLon_Unswapped(coordinates) == <<coordinates[1], coordinates[2]>>

\* longitude, latitude = coordinates; the tuple returned starts latitude, longitude
LatLon(coordinates) == <<coordinates[2], coordinates[1]>>

MatchedComponents(properties) ==
    << dict_get(properties, "street", NA),
       dict_get(properties, "locality", NA),
       dict_get(properties, "postalcode", NA),
       dict_get(properties, "region", NA),
       dict_get(properties, "country", NA) >>

ParseFeature(first_feature) ==
    IF "properties" \notin DOMAIN first_feature THEN Raise("KeyError")
    ELSE LET properties == first_feature["properties"] IN
    IF "geometry" \notin DOMAIN first_feature THEN Raise("KeyError")
    ELSE IF "coordinates" \notin DOMAIN first_feature["geometry"] THEN Raise("KeyError")
    ELSE LET coordinates == first_feature["geometry"]["coordinates"] IN
    IF Len(coordinates) # 2 THEN Raise("ValueError")
    ELSE IF ~(RequiredKeys \subseteq DOMAIN properties) THEN Raise("KeyError")
    ELSE Return(LatLon(coordinates)
                \o <<properties["source"], properties["accuracy"],
                     properties["match_type"]>>
                \o MatchedComponents(properties))

geocode_result(resp) ==
    IF IsSuccess(resp)
    THEN IF ~resp.json_ok THEN Raise("JSONDecodeError")
         ELSE LET geocoded_data == resp.data IN
              IF "features" \notin DOMAIN geocoded_data THEN Raise("KeyError")
              ELSE IF Len(geocoded_data["features"]) = 0 THEN Raise("IndexError")
              ELSE ParseFeature(FirstFeature(geocoded_data["features"]))
    ELSE Return(NullResult)

---------------------------------------------------------------------------
(* The input table and the responses the batch run may meet *)

RowPool ==
    { <<"id_1", "1 High St", "Perth", "6000", "WA", "Australia">>,
      <<"id_2", "2 Low Rd", "Hobart", "7000", "TAS", "Australia">> }

Tables == SeqsUpTo(RowPool, MaxRows)

DriverResponses ==
    { [status_code |-> 401, json_ok |-> TRUE, data |-> [error |-> "message"]],
      [status_code |-> 429, json_ok |-> FALSE, data |-> [text |-> "<html>"]],
      [status_code |-> 200, json_ok |-> TRUE,
       data |-> [features |-> <<Feature(<<"lon_a", "lat_a">>, FullProperties("a")),
                                Feature(<<"lon_b", "lat_b">>, FullProperties("b"))>>]],
      [status_code |-> 200, json_ok |-> TRUE,
       data |-> [features |-> <<Feature(<<"lon_a", "lat_a">>,
                                        [k \in RequiredKeys |-> k \o "_a"])>>]],
      [status_code |-> 200, json_ok |-> TRUE, data |-> [features |-> <<>>]],
      [status_code |-> 200, json_ok |-> TRUE, data |-> [error |-> "message"]],
      [status_code |-> 200, json_ok |-> FALSE, data |-> [text |-> "<html>"]],
      [status_code |-> 200, json_ok |-> TRUE,
       data |-> [features |-> <<Feature(<<"lon_a", "lat_a">>,
                                        [k \in MatchedKeys |-> k \o "_a"])>>]] }

---------------------------------------------------------------------------
(* The output file *)

Header ==
    <<"STR_ID", "Latitude", "Longitude", "Source", "Accuracy", "Match_Type",
      "Matched_Address", "Matched_Locality", "Matched_Postalcode",
      "Matched_Region", "Matched_Country">>

\* csv.writer writes None as the empty field and a string as itself.
CsvField(v) == IF v = None THEN "" ELSE v

CsvRow(values) == [i \in 1..Len(values) |-> CsvField(values[i])]

Event(op) == [op |-> op, k |-> pos]

Params(r) ==
    [api_key |-> api_key, address |-> r[2], locality |-> r[3],
     postalcode |-> r[4], region |-> r[5], country |-> r[6]]

---------------------------------------------------------------------------
(* The run of the notebook *)

NoRow == <<>>

Init ==
    /\ table \in Tables
    /\ max_rows_to_process \in 0..MaxCap
    /\ pc = "open_file"
    /\ n = 0
    /\ pos = 0
    /\ row = NoRow
    /\ response = NoResponse
    /\ result = <<>>
    /\ exc = NoException
    /\ csv = <<>>
    /\ file_state = "unopened"
    /\ cursor_state = "unopened"
    /\ log = <<>>
    /\ slept = 0
    /\ requests = <<>>
    /\ results = <<>>

\* with open(output_csv_path, 'w', ...) as file
OpenFile ==
    /\ pc = "open_file"
    /\ file_state' = "open"
    /\ csv' = <<>>
    /\ log' = Append(log, Event("open_file"))
    /\ pc' = "write_header"
    /\ UNCHANGED <<table, max_rows_to_process, n, pos, row, response, result,
                   exc, cursor_state, requests, results, slept>>

\* Mutant of WriteHeader: the header written only when there are rows to follow.
WriteHeader_OnlyIfRows ==
    /\ pc = "write_header"
    /\ csv' = IF Len(table) > 0 THEN Append(csv, Header) ELSE csv
    /\ log' = IF Len(table) > 0 THEN Append(log, Event("write_header")) ELSE log
    /\ n' = 1
    /\ pc' = "open_cursor"
    /\ UNCHANGED <<table, max_rows_to_process, pos, row, response, result, exc,
                   file_state, cursor_state, slept, requests, results>>

\* writer.writerow([...header...]); n = 1
WriteHeader ==
    /\ pc = "write_header"
    /\ csv' = Append(csv, Header)
    /\ log' = Append(log, Event("write_header"))
    /\ n' = 1
    /\ pc' = "open_cursor"
    /\ UNCHANGED <<table, max_rows_to_process, pos, row, response, result, exc,
                   file_state, cursor_state, requests, results, slept>>

\* with arcpy.da.SearchCursor(addresses_tbl_path, address_fields) as cursor
OpenCursor ==
    /\ pc = "open_cursor"
    /\ cursor_state' = "open"
    /\ pos' = 0
    /\ log' = Append(log, Event("open_cursor"))
    /\ pc' = "for"
    /\ UNCHANGED <<table, max_rows_to_process, n, row, response, result, exc,
                   csv, file_state, requests, results, slept>>

\* Mutant of ForNext: the cursor yielding the rows last to first.
ForNext_Reversed ==
    /\ pc = "for"
    /\ IF pos < Len(table)
       THEN /\ row' = table[Len(table) - pos]
            /\ pos' = pos + 1
            /\ pc' = "sleep"
       ELSE /\ pc' = "exit_cursor"
            /\ UNCHANGED <<row, pos>>
    /\ UNCHANGED <<table, max_rows_to_process, n, response, result, exc, csv,
                   file_state, cursor_state, log, slept, requests, results>>

\* for row in cursor
ForNext ==
    /\ pc = "for"
    /\ IF pos < Len(table)
       THEN /\ row' = table[pos + 1]
            /\ pos' = pos + 1
            /\ pc' = "sleep"
       ELSE /\ pc' = "exit_cursor"
            /\ UNCHANGED <<row, pos>>
    /\ UNCHANGED <<table, max_rows_to_process, n, response, result, exc, csv,
                   file_state, cursor_state, log, requests, results, slept>>

\* geocode_address: time.sleep(delay_seconds)
Sleep ==
    /\ pc = "sleep"
    /\ slept' = slept + delay_seconds
    /\ log' = Append(log, Event("sleep"))
    /\ pc' = "get"
    /\ UNCHANGED <<table, max_rows_to_process, n, pos, row, response, result,
                   exc, csv, file_state, cursor_state, requests, results>>

\* Mutant of Get: a throttled request (429) issued again at once.
Get_RetryOn429 ==
    /\ pc = "get"
    /\ log' = Append(log, Event("get"))
    /\ requests' = Append(requests, Params(row))
    /\ \/ \E resp \in DriverResponses :
            /\ response' = resp
            /\ exc' = exc
            /\ pc' = IF resp.status_code = 429 /\ Len(requests) < 2 * MaxRows
                     THEN "get" ELSE "parse"
       \/ /\ response' = NoResponse
          /\ exc' = "ConnectionError"
          /\ pc' = "exit_cursor"
    /\ UNCHANGED <<table, max_rows_to_process, n, pos, row, result, csv,
                   file_state, cursor_state, slept, results>>

\* geocode_address: response = requests.get(full_url); the service answers
\* with any response, or the transport fails and requests.get raises.
Get ==
    /\ pc = "get"
    /\ log' = Append(log, Event("get"))
    /\ requests' = Append(requests, Params(row))
    /\ \/ \E resp \in DriverResponses :
            /\ response' = resp
            /\ exc' = exc
            /\ pc' = "parse"
       \/ /\ response' = NoResponse
          /\ exc' = "ConnectionError"
          /\ pc' = "exit_cursor"
    /\ UNCHANGED <<table, max_rows_to_process, n, pos, row, result, csv,
                   file_state, cursor_state, results, slept>>

\* Mutant of Parse: an exception of the parse caught and turned into the
\* all-None tuple.
Parse_CatchAll ==
    /\ pc = "parse"
    /\ LET r == geocode_result(response)
           v == IF r.raised = NoException THEN r.value ELSE NullResult
       IN /\ result' = v
          /\ results' = Append(results, v)
          /\ pc' = "write_row"
    /\ UNCHANGED <<table, max_rows_to_process, n, pos, row, response, exc, csv,
                   file_state, cursor_state, log, slept, requests>>

\* geocode_address: the status check, the parse and the return
Parse ==
    /\ pc = "parse"
    /\ LET r == geocode_result(response) IN
       IF r.raised = NoException
       THEN /\ result' = r.value
            /\ results' = Append(results, r.value)
            /\ pc' = "write_row"
            /\ exc' = exc
       ELSE /\ exc' = r.raised
            /\ pc' = "exit_cursor"
            /\ UNCHANGED <<result, results>>
    /\ UNCHANGED <<table, max_rows_to_process, n, pos, row, response, csv,
                   file_state, cursor_state, log, requests, slept>>

\* writer.writerow([str_id, latitude, ..., matched_country])
WriteRow ==
    /\ pc = "write_row"
    /\ csv' = Append(csv, CsvRow(<<row[1]>> \o result))
    /\ log' = Append(log, Event("write_row"))
    /\ pc' = "check_cap"
    /\ UNCHANGED <<table, max_rows_to_process, n, pos, row, response, result, exc,
                   file_state, cursor_state, requests, results, slept>>

\* if n >= max_rows_to_process: break
\* n = n + 1
CheckCap ==
    /\ pc = "check_cap"
    /\ IF n >= max_rows_to_process
       THEN /\ pc' = "exit_cursor"
            /\ n' = n
       ELSE /\ n' = n + 1
            /\ pc' = "for"
    /\ UNCHANGED <<table, max_rows_to_process, pos, row, response, result, exc,
                   csv, file_state, cursor_state, log, requests, results, slept>>

\* leaving the inner with block, normally or with an exception propagating
ExitCursor ==
    /\ pc = "exit_cursor"
    /\ cursor_state' = "closed"
    /\ log' = Append(log, Event("close_cursor"))
    /\ pc' = "exit_file"
    /\ UNCHANGED <<table, max_rows_to_process, n, pos, row, response, result,
                   exc, csv, file_state, requests, results, slept>>

\* Mutant of ExitFile: the file closed only when the block ends normally.
ExitFile_LeakOnException ==
    /\ pc = "exit_file"
    /\ file_state' = IF exc = NoException THEN "closed" ELSE file_state
    /\ log' = IF exc = NoException THEN Append(log, Event("close_file")) ELSE log
    /\ pc' = IF exc = NoException THEN "print_done" ELSE "raised"
    /\ UNCHANGED <<table, max_rows_to_process, n, pos, row, response, result,
                   exc, csv, cursor_state, slept, requests, results>>

\* leaving the outer with block, normally or with an exception propagating
ExitFile ==
    /\ pc = "exit_file"
    /\ file_state' = "closed"
    /\ log' = Append(log, Event("close_file"))
    /\ pc' = IF exc = NoException THEN "print_done" ELSE "raised"
    /\ UNCHANGED <<table, max_rows_to_process, n, pos, row, response, result,
                   exc, csv, cursor_state, requests, results, slept>>

\* print("done")
PrintDone ==
    /\ pc = "print_done"
    /\ log' = Append(log, Event("done"))
    /\ pc' = "done"
    /\ UNCHANGED <<table, max_rows_to_process, n, pos, row, response, result,
                   exc, csv, file_state, cursor_state, requests, results, slept>>

Next ==
    \/ OpenFile
    \/ WriteHeader
    \/ OpenCursor
    \/ ForNext
    \/ Sleep
    \/ Get
    \/ Parse
    \/ WriteRow
    \/ CheckCap
    \/ ExitCursor
    \/ ExitFile
    \/ PrintDone

Spec == Init /\ [][Next]_vars

---------------------------------------------------------------------------
(* geocode_address applied to one response, for the claims about the lookup *)

LookupInit ==
    /\ table = <<>>
    /\ max_rows_to_process = 0
    /\ pc = "lookup"
    /\ n = 0
    /\ pos = 0
    /\ row = NoRow
    /\ response \in AllResponses
    /\ result = <<>>
    /\ exc = NoException
    /\ csv = <<>>
    /\ file_state = "unopened"
    /\ cursor_state = "unopened"
    /\ log = <<>>
    /\ slept = 0
    /\ requests = <<>>
    /\ results = <<>>

Lookup ==
    /\ pc = "lookup"
    /\ LET r == geocode_result(response) IN
       /\ result' = r.value
       /\ exc' = r.raised
    /\ pc' = "lookup_done"
    /\ UNCHANGED <<table, max_rows_to_process, n, pos, row, response, csv,
                   file_state, cursor_state, log, slept, requests, results>>

SpecLookup == LookupInit /\ [][Lookup]_vars

---------------------------------------------------------------------------
(* Vocabulary of the properties *)

Min(a, b) == IF a <= b THEN a ELSE b

DataRows == IF Len(csv) = 0 THEN 0 ELSE Len(csv) - 1

Terminated == pc \in {"done", "raised"}

Count(op) == Cardinality({ i \in 1..Len(log) : log[i].op = op })

IndexOf(op) == CHOOSE i \in 1..Len(log) : log[i].op = op

\* the log restricted to the effects of geocode_address on the network
RECURSIVE NetOps(_)
NetOps(l) ==
    IF l = <<>> THEN <<>>
    ELSE IF Head(l).op \in {"sleep", "get"}
         THEN <<Head(l)>> \o NetOps(Tail(l))
         ELSE NetOps(Tail(l))

NullFields == <<"", "", "", "", "", "", "", "", "", "">>

HasFirstFeature(resp) ==
    /\ resp.status_code = 200
    /\ resp.json_ok
    /\ "features" \in DOMAIN resp.data
    /\ Len(resp.data.features) >= 1

\* the first feature carries the members the lookup indexes without a default
CarriesRequired(f) ==
    /\ DOMAIN f = {"geometry", "properties"}
    /\ Len(f.geometry.coordinates) = 2
    /\ {"source", "accuracy", "match_type"} \subseteq DOMAIN f.properties

ZeroResult(resp) ==
    /\ resp.status_code = 200
    /\ resp.json_ok
    /\ "features" \in DOMAIN resp.data
    /\ Len(resp.data.features) = 0

---------------------------------------------------------------------------
(* Properties of the lookup, checked under SpecLookup *)

\* C4: for every response whose status code is not 200, whatever its body
\* (a JSON object, features or none, or text that is not JSON), the lookup
\* returns ten components that are all None and raises nothing.
C4_Non200ReturnsAllNone ==
    (pc = "lookup_done" /\ response.status_code # 200)
        => /\ exc = NoException
           /\ Len(result) = 10
           /\ \A i \in 1..10 : result[i] = None

C4_Witness ==
    /\ pc = "lookup_done"
    /\ response.status_code = 429
    /\ ~response.json_ok
    /\ exc = NoException
    /\ result = <<None, None, None, None, None, None, None, None, None, None>>

\* C5: for every 200 response whose features array has at least one
\* feature, the lookup returns whenever the first feature carries
\* two-element coordinates and source, accuracy and match_type, and every
\* tuple it returns is built from the first feature alone: coordinates[1],
\* coordinates[0], source, accuracy, match_type, then street, locality,
\* postalcode, region, country.
C5_TupleFromFirstFeature ==
    (pc = "lookup_done" /\ HasFirstFeature(response))
        => LET f == response.data.features[1] IN
           /\ CarriesRequired(f) => exc = NoException
           /\ exc = NoException =>
                LET c == f.geometry.coordinates
                    p == f.properties
                IN /\ Len(result) = 10
                   /\ result[1] = c[2]
                   /\ result[2] = c[1]
                   /\ result[3] = p["source"]
                   /\ result[4] = p["accuracy"]
                   /\ result[5] = p["match_type"]
                   /\ \A i \in 1..5 :
                        LET key == <<"street", "locality", "postalcode",
                                     "region", "country">>[i]
                        IN key \in DOMAIN p => result[5 + i] = p[key]

C5_Witness ==
    /\ pc = "lookup_done"
    /\ HasFirstFeature(response)
    /\ Len(response.data.features) = 2
    /\ exc = NoException
    /\ result = <<"lat_a", "lon_a", "source_a", "accuracy_a", "match_type_a",
                  "street_a", "locality_a", "postalcode_a", "region_a",
                  "country_a">>

\* C6: on the 200 path with a first feature, each matched component whose
\* key is absent from the properties is returned as "N/A" whatever the other
\* four are, and each one whose key is present is returned with its value.
C6_AbsentMatchedIsNA ==
    (pc = "lookup_done" /\ HasFirstFeature(response) /\ exc = NoException)
        => LET p == response.data.features[1].properties IN
           \A i \in 1..5 :
              LET key == <<"street", "locality", "postalcode", "region",
                           "country">>[i]
              IN /\ key \notin DOMAIN p => result[5 + i] = "N/A"
                 /\ key \in DOMAIN p => result[5 + i] = p[key]

C6_Witness ==
    /\ pc = "lookup_done"
    /\ HasFirstFeature(response)
    /\ exc = NoException
    /\ DOMAIN response.data.features[1].properties
         = {"source", "accuracy", "match_type", "locality", "postalcode"}
    /\ result[6] = "N/A"
    /\ result[7] = "locality_a"
    /\ result[8] = None
    /\ result[9] = "N/A"
    /\ result[10] = "N/A"

---------------------------------------------------------------------------
(* Properties of the batch run, checked under Spec *)

HeaderRow ==
    <<"STR_ID", "Latitude", "Longitude", "Source", "Accuracy", "Match_Type",
      "Matched_Address", "Matched_Locality", "Matched_Postalcode",
      "Matched_Region", "Matched_Country">>

\* C1: data row k of the CSV holds the STR_ID of input row k and then the
\* ten values the lookup returned for that row (None written as the empty
\* field); a response that is not 200 raises nothing, and a run that ends
\* normally has written a row for every row the cursor yielded and ended
\* only because the table was exhausted or the cap was reached.
C1_OneRowPerInputRowInOrder ==
    /\ DataRows <= pos
    /\ DataRows <= Len(results)
    /\ \A k \in 1..DataRows :
         /\ Len(csv[k + 1]) = 11
         /\ csv[k + 1][1] = table[k][1]
         /\ \A i \in 1..10 :
              csv[k + 1][i + 1] = IF results[k][i] = None THEN "" ELSE results[k][i]
    /\ response.status_code \notin {0, 200} => exc = NoException
    /\ pc = "done" =>
         /\ DataRows = pos
         /\ pos = Len(table) \/ n >= max_rows_to_process

C1_Witness ==
    /\ pc = "done"
    /\ Len(csv) = 4
    /\ table[1] # table[2]
    /\ csv[2][2] = "lat_a"
    /\ csv[3] = <<table[2][1]>> \o NullFields
    /\ csv[4][2] = "lat_a"
    /\ csv[4][7] = "N/A"

\* C2 (as claimed): the run never writes more data rows than the cap, and a
\* run that reaches "done" has looked up and written exactly min(N, C) rows,
\* for every cap C >= 0.
C2_StopsAtCap ==
    /\ DataRows <= max_rows_to_process
    /\ pc = "done" =>
         /\ DataRows = Min(Len(table), max_rows_to_process)
         /\ Len(requests) = Min(Len(table), max_rows_to_process)

\* C3: once the file has been written to, its first row is the 11-column
\* header; the header is written once and before any data row, and a run
\* over an empty table still ends with the header in the file.
C3_HeaderFirstOnce ==
    /\ Len(csv) >= 1 => csv[1] = HeaderRow
    /\ Count("write_header") <= 1
    /\ Len(csv) >= 1 => Count("write_header") = 1
    /\ \A i \in 1..Len(log) :
         log[i].op = "write_row" => \E j \in 1..(i - 1) : log[j].op = "write_header"
    /\ \A k \in 2..Len(csv) : csv[k] # HeaderRow
    /\ Terminated => Len(csv) >= 1

C3_Witness ==
    /\ pc = "done"
    /\ table = <<>>
    /\ csv = <<HeaderRow>>

\* C7 (as claimed): when the lookup of the record the cursor last yielded
\* ended in a transport error, a response that is not 200, or a 200 response
\* with an empty features array, nothing is raised and the CSV holds a row
\* for that record with its STR_ID and ten empty fields.
C7_FailuresBecomeNullRows ==
    (/\ pos >= 1
     /\ pc \in {"check_cap", "exit_cursor", "exit_file", "raised", "print_done", "done"}
     /\ \/ exc = "ConnectionError"
        \/ response.status_code \notin {0, 200}
        \/ ZeroResult(response))
        => /\ exc = NoException
           /\ Len(csv) = pos + 1
           /\ csv[pos + 1] = <<table[pos][1]>> \o NullFields

\* C8: every GET is immediately preceded by one sleep of delay_seconds and
\* every sleep is followed by nothing but its GET; there is one GET per row
\* the lookup was called for, none repeated, and GET k carries the address
\* fields of input row k.
C8_OneDelayedRequestPerRow ==
    LET net == NetOps(log) IN
    /\ \A i \in 1..Len(net) : net[i].op = IF i % 2 = 1 THEN "sleep" ELSE "get"
    /\ \A i \in 1..Len(log) :
         log[i].op = "get" => i > 1 /\ log[i - 1].op = "sleep"
    /\ slept = delay_seconds * Count("sleep")
    /\ Len(requests) = Count("get")
    /\ Count("get") = IF pc \in {"sleep", "get"} THEN pos - 1 ELSE pos
    /\ \A k \in 1..Len(requests) :
         /\ net[2 * k].k = k
         /\ requests[k].api_key = api_key
         /\ <<requests[k].address, requests[k].locality, requests[k].postalcode,
              requests[k].region, requests[k].country>>
              = <<table[k][2], table[k][3], table[k][4], table[k][5], table[k][6]>>

C8_Witness ==
    /\ pc = "done"
    /\ Len(requests) = 3
    /\ slept = 3
    /\ \E i \in 1..Len(log) : log[i].op = "write_row" /\ csv[log[i].k + 1][2] = ""

\* the responses on which the parse raises
RaisesOn(resp) ==
    /\ resp.status_code = 200
    /\ \/ ~resp.json_ok
       \/ "features" \notin DOMAIN resp.data
       \/ Len(resp.data.features) = 0
       \/ ~CarriesRequired(resp.data.features[1])

\* C9: a 200 response that is not JSON, has no or an empty features array,
\* or whose first feature lacks a required member makes the lookup raise;
\* an exception, once raised, is never cleared: nothing more is written or
\* requested, the run ends at "raised" without printing "done", and the CSV
\* holds the header and the rows of records 1..k-1 in input order, where k
\* is the record whose lookup raised.
C9_RaiseEndsRunWithPrefix ==
    /\ [](exc # NoException =>
            /\ pc \in {"exit_cursor", "exit_file", "raised"}
            /\ Len(requests) = pos
            /\ Len(csv) = pos
            /\ csv[1] = HeaderRow
            /\ \A k \in 1..(pos - 1) : csv[k + 1][1] = table[k][1]
            /\ Count("done") = 0)
    /\ [](pc = "raised" => exc # NoException)
    /\ [][(pc = "parse" /\ RaisesOn(response)) => exc' # NoException]_vars
    /\ [][exc # NoException =>
            /\ exc' = exc
            /\ csv' = csv
            /\ requests' = requests
            /\ pos' = pos]_vars

C9_Witness ==
    /\ pc = "raised"
    /\ exc = "IndexError"
    /\ Len(table) = 3
    /\ pos = 3
    /\ Len(csv) = 3

\* C10: the file is opened once, before the header is written; every write
\* to the CSV happens while it is open; a closed file is never reopened;
\* whenever the file is closed the cursor has been released already; and
\* every run that has ended, at "done" or at "raised", has closed both.
C10_FileOpenForRunThenClosed ==
    /\ [](Count("open_file") <= 1)
    /\ [](Len(csv) >= 1 =>
            /\ Count("open_file") = 1
            /\ IndexOf("open_file") < IndexOf("write_header"))
    /\ [][csv' # csv => file_state = "open" /\ file_state' = "open"]_vars
    /\ [][file_state = "closed" => file_state' = "closed"]_vars
    /\ [](file_state = "closed" =>
            /\ cursor_state = "closed"
            /\ IndexOf("close_cursor") < IndexOf("close_file"))
    /\ [](Terminated => file_state = "closed" /\ cursor_state = "closed")

C10_Witness ==
    /\ pc = "raised"
    /\ exc = "JSONDecodeError"
    /\ DataRows = 2
    /\ file_state = "closed"
    /\ cursor_state = "closed"

====
